---- MODULE Spec2Model ----
(***************************************************************************)
(* The expense list engine (src/lambdas/list_expenses/handler.py) over     *)
(* the table the create handler (src/lambdas/create-expense/handler.py)    *)
(* writes.  Strings are sequences of UTF-8 byte values, so that the        *)
(* table's ordering of sort keys is the byte-wise ordering DynamoDB uses.  *)
(***************************************************************************)
EXTENDS Integers, Sequences, FiniteSets, TLC

\* ----------------------------------------------------------------- bounds
\* most records the table holds
MaxRecords == 2

\* ---------------------------------------------------------------- strings
\* Python's None, as a value no byte string equals
None == <<-1>>

\* Python truthiness of an optional string: neither None nor ""
Truthy(s) == s # None /\ s # <<>>

Min2(a, b) == IF a <= b THEN a ELSE b

\* byte-wise lexicographic order (DynamoDB's order on string keys/attributes)
RECURSIVE FirstDiff(_, _, _)
\* the first position from i on where a and b differ or one of them has ended
FirstDiff(a, b, i) ==
    IF i > Len(a) \/ i > Len(b) \/ a[i] # b[i] THEN i ELSE FirstDiff(a, b, i + 1)

StrLt(a, b) ==
    LET i == FirstDiff(a, b, 1)
    IN IF i > Len(a) THEN i <= Len(b) ELSE (i <= Len(b) /\ a[i] < b[i])

StrLe(a, b) == a = b \/ StrLt(a, b)

BeginsWith(s, p) == Len(p) <= Len(s) /\ SubSeq(s, 1, Len(p)) = p

\* first position of sub in s, 0 when absent
IndexOf(s, sub) ==
    LET hits == {i \in 1..(Len(s) - Len(sub) + 1) : SubSeq(s, i, i + Len(sub) - 1) = sub}
    IN IF hits = {} THEN 0 ELSE CHOOSE i \in hits : \A j \in hits : i <= j

\* DynamoDB's contains(): exact (case-sensitive) substring
Contains(s, sub) == IndexOf(s, sub) > 0

IsDigit(c) == c \in 48..57

\* "DATE#"
DatePrefix == <<68, 65, 84, 69, 35>>
\* "USER#"
UserPrefix == <<85, 83, 69, 82, 35>>
\* "#"
Hash == <<35>>
\* "￿" in UTF-8
HighSentinel == <<239, 191, 191>>
\* "darpankattel"
DefaultUser == <<100, 97, 114, 112, 97, 110, 107, 97, 116, 116, 101, 108>>
\* "uncategorized"
Uncategorized == <<117, 110, 99, 97, 116, 101, 103, 111, 114, 105, 122, 101, 100>>

\* ------------------------------------------------------------------ dates
Fmt2(n) == <<48 + (n \div 10), 48 + (n % 10)>>
Fmt4(n) == <<48 + (n \div 1000), 48 + ((n \div 100) % 10), 48 + ((n \div 10) % 10), 48 + (n % 10)>>
Num2(s, i) == (s[i] - 48) * 10 + (s[i + 1] - 48)
Num4(s, i) == Num2(s, i) * 100 + Num2(s, i + 2)
Digits(s, from, to) == \A i \in from..to : IsDigit(s[i])

IsLeap(y) == (y % 4 = 0 /\ y % 100 # 0) \/ y % 400 = 0
DaysInMonth(y, m) ==
    IF m = 2 THEN (IF IsLeap(y) THEN 29 ELSE 28)
    ELSE IF m \in {4, 6, 9, 11} THEN 30 ELSE 31

NoDateTime == [ok |-> FALSE, y |-> 0, mo |-> 0, d |-> 0, h |-> 0, mi |-> 0, s |-> 0]

ValidYMD(y, m, d) == y >= 1 /\ m \in 1..12 /\ d \in 1..DaysInMonth(y, m)

\* datetime.strptime(s, '%Y-%m-%d') on a string of 10 characters
strptime_ymd(s) ==
    IF /\ Len(s) = 10
       /\ Digits(s, 1, 4) /\ s[5] = 45 /\ Digits(s, 6, 7) /\ s[8] = 45 /\ Digits(s, 9, 10)
       /\ ValidYMD(Num4(s, 1), Num2(s, 6), Num2(s, 9))
    THEN [ok |-> TRUE, y |-> Num4(s, 1), mo |-> Num2(s, 6), d |-> Num2(s, 9),
          h |-> 0, mi |-> 0, s |-> 0]
    ELSE NoDateTime

\* datetime.fromisoformat(s.replace('Z', '+00:00')) on YYYY-MM-DDTHH:MM:SSZ
fromisoformat_z(s) ==
    IF /\ Len(s) = 20
       /\ Digits(s, 1, 4) /\ s[5] = 45 /\ Digits(s, 6, 7) /\ s[8] = 45 /\ Digits(s, 9, 10)
       /\ s[11] = 84
       /\ Digits(s, 12, 13) /\ s[14] = 58 /\ Digits(s, 15, 16) /\ s[17] = 58
       /\ Digits(s, 18, 19) /\ s[20] = 90
       /\ ValidYMD(Num4(s, 1), Num2(s, 6), Num2(s, 9))
       /\ Num2(s, 12) <= 23 /\ Num2(s, 15) <= 59 /\ Num2(s, 18) <= 59
    THEN [ok |-> TRUE, y |-> Num4(s, 1), mo |-> Num2(s, 6), d |-> Num2(s, 9),
          h |-> Num2(s, 12), mi |-> Num2(s, 15), s |-> Num2(s, 18)]
    ELSE NoDateTime

\* dt.strftime('%Y-%m-%dT%H:%M:%SZ')
strftime_iso(dt) ==
    Fmt4(dt.y) \o <<45>> \o Fmt2(dt.mo) \o <<45>> \o Fmt2(dt.d) \o <<84>>
    \o Fmt2(dt.h) \o <<58>> \o Fmt2(dt.mi) \o <<58>> \o Fmt2(dt.s) \o <<90>>

validate_and_normalize_date(date_str) ==
    IF Len(date_str) = 10
    THEN (IF strptime_ymd(date_str).ok THEN strftime_iso(strptime_ymd(date_str)) ELSE None)
    ELSE (IF fromisoformat_z(date_str).ok THEN strftime_iso(fromisoformat_z(date_str)) ELSE None)

\* ------------------------------------------------------------------- JSON
\* json.dumps of a last-evaluated key {'PK': ..., 'SK': ...}
JsonPkOpen == <<123, 34, 80, 75, 34, 58, 32, 34>>
JsonSkOpen == <<34, 44, 32, 34, 83, 75, 34, 58, 32, 34>>
JsonClose == <<34, 125>>

json_dumps(key) == JsonPkOpen \o key.PK \o JsonSkOpen \o key.SK \o JsonClose

JsonError == [t |-> "error", keys |-> {}, PK |-> None, SK |-> None]
JsonNumber == [t |-> "number", keys |-> {}, PK |-> None, SK |-> None]
JsonObject(keys, pk, sk) == [t |-> "object", keys |-> keys, PK |-> pk, SK |-> sk]

\* json.loads on the texts a client sends: {} , a number, an object holding PK
\* (and SK) strings; any other text raises JSONDecodeError
json_loads(text) ==
    IF text = <<123, 125>> THEN JsonObject({}, None, None)
    ELSE IF Len(text) > 0 /\ Digits(text, 1, Len(text)) THEN JsonNumber
    ELSE IF /\ BeginsWith(text, JsonPkOpen)
            /\ Len(text) >= Len(JsonPkOpen) + Len(JsonClose)
            /\ SubSeq(text, Len(text) - 1, Len(text)) = JsonClose
    THEN LET body == SubSeq(text, Len(JsonPkOpen) + 1, Len(text) - Len(JsonClose))
             cut == IndexOf(body, JsonSkOpen)
         IN IF cut > 0
            THEN (IF 34 \in {body[i] : i \in 1..(cut - 1)}
                        \cup {body[i] : i \in (cut + Len(JsonSkOpen))..Len(body)}
                  THEN JsonError
                  ELSE JsonObject({"PK", "SK"}, SubSeq(body, 1, cut - 1),
                                  SubSeq(body, cut + Len(JsonSkOpen), Len(body))))
            ELSE (IF 34 \in {body[i] : i \in 1..Len(body)}
                  THEN JsonError
                  ELSE JsonObject({"PK"}, body, None))
    ELSE JsonError

\* --------------------------------------------------------------- identity
\* event["requestContext"]["authorizer"]: "absent" (no requestContext or no
\* authorizer), "jwt" (HTTP API) or "rest" (Cognito user pool); sub is the
\* claim, None when the claims hold none
get_user_id_from_event(event) ==
    IF event.authorizer = "jwt" THEN event.sub
    ELSE IF event.authorizer = "rest" THEN event.sub
    ELSE None

\* ------------------------------------------------------------------ table
Pk(user_id) == UserPrefix \o user_id
Sk(receipt_date, expense_id) == DatePrefix \o receipt_date \o Hash \o expense_id

NoKey == [PK |-> None, SK |-> None]
KeyOf(item) == [PK |-> item.PK, SK |-> item.SK]

\* the hexadecimal digits 0, f, 8, a used to fill a version 4 UUID
UuidFill == <<48, 102, 56, 97>>
\* str(uuid.uuid4()): xxxxxxxx-xxxx-4xxx-8xxx-xxxxxxxxxxxx
Uuid(h) == <<h, h, h, h, h, h, h, h, 45, h, h, h, h, 45, 52, h, h, h, 45, 56, h, h, h, 45,
             h, h, h, h, h, h, h, h, h, h, h, h>>
Uuids == {Uuid(UuidFill[i]) : i \in 1..MaxRecords}

\* the items of one partition as a sequence, sort keys descending
\* (ScanIndexForward = False)
Descending(S) ==
    [i \in 1..Cardinality(S) |->
        CHOOSE x \in S : Cardinality({y \in S : StrLt(x.SK, y.SK)}) = i - 1]

Take(seq, n) == SubSeq(seq, 1, Min2(n, Len(seq)))

StoreResult(err, items, lek) == [error |-> err, Items |-> items, LastEvaluatedKey |-> lek]

\* no ExclusiveStartKey among the arguments
JsonAbsent == [t |-> "absent", keys |-> {}, PK |-> None, SK |-> None]

\* what the client library and the service make of an ExclusiveStartKey: a value
\* that is no dict fails parameter validation, a dict that is not the table's
\* key schema (PK and SK) is a ValidationException of the service
StartKeyFault(start) ==
    IF start.t = "absent" THEN "none"
    ELSE IF start.t # "object" THEN "ParamValidationError"
    ELSE IF start.keys # {"PK", "SK"} THEN "ClientError"
    ELSE "none"

\* Key('SK'): between(lo, hi), gte(lo), begins_with(lo)
InKeyCond(sk, kc) ==
    CASE kc.kind = "between" -> StrLe(kc.lo, sk) /\ StrLe(sk, kc.hi)
      [] kc.kind = "gte" -> StrLe(kc.lo, sk)
      [] OTHER -> BeginsWith(sk, kc.lo)

\* table.query(**query_kwargs): one partition, descending sort key order
\* (ScanIndexForward False), at most Limit items evaluated, the filter applied
\* to the evaluated items, LastEvaluatedKey set when Limit items were evaluated
table_query(tbl, kw) ==
    IF kw.Limit < 1 THEN StoreResult("ParamValidationError", <<>>, NoKey)
    ELSE IF StartKeyFault(kw.start) # "none"
    THEN StoreResult(StartKeyFault(kw.start), <<>>, NoKey)
    ELSE IF kw.start.t = "object" /\ (kw.start.PK # kw.pk \/ ~InKeyCond(kw.start.SK, kw.kc))
    THEN StoreResult("ClientError", <<>>, NoKey)
    ELSE LET cand == {it \in tbl : /\ it.PK = kw.pk
                                   /\ InKeyCond(it.SK, kw.kc)
                                   /\ (kw.start.t = "object" => StrLt(it.SK, kw.start.SK))}
             ordered == Descending(cand)
             evaluated == Take(ordered, kw.Limit)
             Pass(it) == Truthy(kw.category) => it.category = kw.category
         IN StoreResult("none", SelectSeq(evaluated, Pass),
                        IF Len(evaluated) = kw.Limit
                        THEN KeyOf(evaluated[Len(evaluated)]) ELSE NoKey)

\* the place of a partition in the table's scan order (0: not a partition of it)
ScanPos(order, pk) ==
    IF \E i \in 1..Len(order) : order[i] = pk
    THEN CHOOSE i \in 1..Len(order) : order[i] = pk ELSE 0

ScanBefore(order, a, b) ==
    \/ ScanPos(order, a.PK) < ScanPos(order, b.PK)
    \/ (a.PK = b.PK /\ StrLt(a.SK, b.SK))

\* the items of S as the scan walks them
ScanSequence(S, order) ==
    [i \in 1..Cardinality(S) |->
        CHOOSE x \in S :
            Cardinality({y \in S : ScanBefore(order, KeyOf(y), KeyOf(x))}) = i - 1]

\* ScanFilter without its partition condition
ScanFilterAnyPartition(it, kw) ==
    /\ BeginsWith(it.SK, DatePrefix)
    /\ (Truthy(kw.date_gte) => StrLe(kw.date_gte, it.receiptDate))
    /\ (Truthy(kw.date_lte) => StrLe(it.receiptDate, kw.date_lte))
    /\ (Truthy(kw.category) => it.category = kw.category)
    /\ (Truthy(kw.search) => Contains(it.merchantName, kw.search))

\* the FilterExpression scan_with_search builds
ScanFilter(it, kw) ==
    /\ it.PK = kw.pk
    /\ BeginsWith(it.SK, DatePrefix)
    /\ (Truthy(kw.date_gte) => StrLe(kw.date_gte, it.receiptDate))
    /\ (Truthy(kw.date_lte) => StrLe(it.receiptDate, kw.date_lte))
    /\ (Truthy(kw.category) => it.category = kw.category)
    /\ (Truthy(kw.search) => Contains(it.merchantName, kw.search))

\* table.scan(**scan_kwargs): the whole table in the table's own order, at most
\* Limit items evaluated, the filter applied to the evaluated items
table_scan(tbl, order, kw) ==
    IF kw.Limit < 1 THEN StoreResult("ParamValidationError", <<>>, NoKey)
    ELSE IF StartKeyFault(kw.start) # "none"
    THEN StoreResult(StartKeyFault(kw.start), <<>>, NoKey)
    ELSE LET cand == {it \in tbl : kw.start.t = "object"
                                      => ScanBefore(order, kw.start, KeyOf(it))}
             ordered == ScanSequence(cand, order)
             evaluated == Take(ordered, kw.Limit)
             Pass(it) == ScanFilter(it, kw)
         IN StoreResult("none", SelectSeq(evaluated, Pass),
                        IF Len(evaluated) = kw.Limit
                        THEN KeyOf(evaluated[Len(evaluated)]) ELSE NoKey)

\* ------------------------------------------------------------ list engine
Raised(exc, calls_) == [raised |-> exc, items |-> <<>>, last_key |-> NoKey, calls |-> calls_]

\* what a strategy hands back after its store call
FromStore(r, call) ==
    IF r.error # "none" THEN Raised(r.error, <<call>>)
    ELSE [raised |-> "none", items |-> r.Items, last_key |-> r.LastEvaluatedKey,
          calls |-> <<call>>]

\* StartKey dropping the cursor: every page starts over
StartKeyIgnored(next_token) ==
    IF Truthy(next_token) /\ json_loads(next_token).t = "error" THEN JsonError ELSE JsonAbsent

\* the ExclusiveStartKey a strategy makes of next_token ("error": json.loads raised)
StartKey(next_token) == IF Truthy(next_token) THEN json_loads(next_token) ELSE JsonAbsent

QueryKeyCond(date_gte, date_lte) ==
    IF Truthy(date_gte) /\ Truthy(date_lte)
    THEN [kind |-> "between", lo |-> DatePrefix \o date_gte,
          hi |-> DatePrefix \o date_lte \o Hash \o HighSentinel]
    ELSE IF Truthy(date_gte)
    THEN [kind |-> "gte", lo |-> DatePrefix \o date_gte, hi |-> <<>>]
    ELSE IF Truthy(date_lte)
    THEN [kind |-> "between", lo |-> DatePrefix,
          hi |-> DatePrefix \o date_lte \o Hash \o HighSentinel]
    ELSE [kind |-> "begins_with", lo |-> DatePrefix, hi |-> <<>>]

query_with_filters(tbl, user_id, date_gte, date_lte, category, limit, next_token) ==
    LET start == StartKey(next_token)
        kw == [op |-> "query", pk |-> Pk(user_id), kc |-> QueryKeyCond(date_gte, date_lte),
               date_gte |-> None, date_lte |-> None, search |-> None,
               category |-> category, Limit |-> limit, start |-> start]
    IN IF start.t = "error" THEN Raised("ValueError", <<>>)
       ELSE FromStore(table_query(tbl, kw), kw)

scan_with_search(tbl, order, user_id, date_gte, date_lte, category, search_term, limit, next_token) ==
    LET start == StartKey(next_token)
        kw == [op |-> "scan", pk |-> Pk(user_id),
               kc |-> [kind |-> "begins_with", lo |-> DatePrefix, hi |-> <<>>],
               date_gte |-> date_gte, date_lte |-> date_lte, search |-> search_term,
               category |-> category, Limit |-> limit, start |-> start]
    IN IF start.t = "error" THEN Raised("ValueError", <<>>)
       ELSE FromStore(table_scan(tbl, order, kw), kw)

RECURSIVE DecValue(_, _)
\* the number the first n decimal digits of s denote
DecValue(s, n) == IF n = 0 THEN 0 ELSE DecValue(s, n - 1) * 10 + (s[n] - 48)

\* int(s) on a string: digits with an optional minus sign, ValueError otherwise
py_int(s) ==
    IF Len(s) > 0 /\ Digits(s, 1, Len(s)) THEN [ok |-> TRUE, v |-> DecValue(s, Len(s))]
    ELSE IF Len(s) > 1 /\ s[1] = 45 /\ Digits(s, 2, Len(s))
    THEN [ok |-> TRUE, v |-> 0 - DecValue(Tail(s), Len(s) - 1)]
    ELSE [ok |-> FALSE, v |-> 0]

create_error_response(status_code, message) ==
    [statusCode |-> status_code, error |-> message, count |-> 0, expenses |-> <<>>,
     records |-> <<>>, next_token |-> None]

\* the public field set of one stored item
Shape(item) ==
    [expense_id |-> item.expenseID, merchant_name |-> item.merchantName,
     category |-> item.category, receipt_date |-> item.receiptDate]

Outcome(response, calls_) == [resp |-> response, calls |-> calls_]

\* UseScan testing "is not None" where the code tests truthiness
UseScanNotNone(search_term) == search_term # None

\* "if search_term:": the scan strategy, else the range query
UseScan(search_term) == Truthy(search_term)

\* the handler's answer to one request, and the store calls it made
lambda_handler(event, tbl, order) ==
    LET resolved == get_user_id_from_event(event)
        user_id == IF Truthy(resolved) THEN resolved ELSE DefaultUser
        limit_in == IF event.limit = None THEN [ok |-> TRUE, v |-> 50] ELSE py_int(event.limit)
        limit == Min2(limit_in.v, 100)
        date_gte == IF Truthy(event.date__gte)
                    THEN validate_and_normalize_date(event.date__gte) ELSE event.date__gte
        date_lte == IF Truthy(event.date__lte)
                    THEN validate_and_normalize_date(event.date__lte) ELSE event.date__lte
        got == IF UseScan(event.search)
               THEN scan_with_search(tbl, order, user_id, date_gte, date_lte, event.category,
                                     event.search, limit, event.next_token)
               ELSE query_with_filters(tbl, user_id, date_gte, date_lte, event.category,
                                       limit, event.next_token)
    IN IF ~Truthy(user_id)
       THEN Outcome(create_error_response(401, "Unauthorized: Invalid token"), <<>>)
       ELSE IF ~limit_in.ok
       THEN Outcome(create_error_response(400, "invalid literal for int()"), <<>>)
       ELSE IF Truthy(event.date__gte) /\ ~Truthy(date_gte)
       THEN Outcome(create_error_response(400, "Invalid date__gte format"), <<>>)
       ELSE IF Truthy(event.date__lte) /\ ~Truthy(date_lte)
       THEN Outcome(create_error_response(400, "Invalid date__lte format"), <<>>)
       ELSE IF got.raised = "ClientError"
       THEN Outcome(create_error_response(500, "Database error occurred"), got.calls)
       ELSE IF got.raised = "ValueError"
       THEN Outcome(create_error_response(400, "Invalid next_token format"), got.calls)
       ELSE IF got.raised # "none"
       THEN Outcome(create_error_response(500, "Internal server error"), got.calls)
       ELSE Outcome([statusCode |-> 200, error |-> "", count |-> Len(got.items),
                     expenses |-> [i \in 1..Len(got.items) |-> Shape(got.items[i])],
                     records |-> [i \in 1..Len(got.items) |-> KeyOf(got.items[i])],
                     next_token |-> IF got.last_key # NoKey
                                    THEN json_dumps(got.last_key) ELSE None],
                    got.calls)

VARIABLES table, scanOrder, req, resp, calls, pages

vars == <<table, scanOrder, req, resp, calls, pages>>

\* ----------------------------------------------------------- create handler
\* validate_expense_data on the fields the table key is built from
validate_expense_data(body) ==
    IF body.merchant_name = None \/ body.receipt_date = None THEN "missing"
    ELSE IF ~strptime_ymd(body.receipt_date).ok THEN "Invalid receipt_date format"
    ELSE IF Len(body.merchant_name) = 0 THEN "Merchant cannot be empty"
    ELSE "ok"

\* the item lambda_handler of the create handler puts
NewItem(event, expense_id) ==
    LET resolved == get_user_id_from_event(event)
        user_id == IF Truthy(resolved) THEN resolved ELSE DefaultUser
    IN [PK |-> Pk(user_id), SK |-> Sk(event.receipt_date, expense_id),
        userID |-> user_id, expenseID |-> expense_id,
        merchantName |-> event.merchant_name,
        category |-> IF event.category = None THEN Uncategorized ELSE event.category,
        receiptDate |-> event.receipt_date]

\* ------------------------------------------------------------------ inputs
\* "u1"
U1 == <<117, 49>>
\* "2025-01-10", "2025-01-15", "not-a-date"
D10 == <<50, 48, 50, 53, 45, 48, 49, 45, 49, 48>>
D15 == <<50, 48, 50, 53, 45, 48, 49, 45, 49, 53>>
BadDate == <<110, 111, 116, 45, 97, 45, 100, 97, 116, 101>>
\* "Blue Bottle Coffee", "Amazon", "coffee stand", "Food", "coffee"
BlueBottle == <<66, 108, 117, 101, 32, 66, 111, 116, 116, 108, 101, 32, 67, 111, 102, 102, 101, 101>>
Amazon == <<65, 109, 97, 122, 111, 110>>
CoffeeStand == <<99, 111, 102, 102, 101, 101, 32, 115, 116, 97, 110, 100>>
Food == <<70, 111, 111, 100>>
Coffee == <<99, 111, 102, 102, 101, 101>>
\* "abc", "0", "-1", "1", "2", "150"
LimitWord == <<97, 98, 99>>
LimitZero == <<48>>
LimitNeg == <<45, 49>>
LimitOne == <<49>>
LimitTwo == <<50>>
LimitBig == <<49, 53, 48>>
\* "not-a-real-token", "7", "{}", {"PK": "USER#u1"}
TokenGarbage == <<110, 111, 116, 45, 97, 45, 114, 101, 97, 108, 45, 116, 111, 107, 101, 110>>
TokenNumber == <<55>>
TokenEmptyObject == <<123, 125>>
TokenNoSortKey == JsonPkOpen \o Pk(U1) \o JsonClose

Anonymous == [authorizer |-> "absent", sub |-> None]

\* requests to the create handler
CreateEvents ==
    {[authorizer |-> who.authorizer, sub |-> who.sub, merchant_name |-> b.m,
      category |-> b.c, receipt_date |-> d] :
        who \in {Anonymous, [authorizer |-> "rest", sub |-> U1]},
        b \in {[m |-> BlueBottle, c |-> Food], [m |-> Amazon, c |-> None],
               [m |-> CoffeeStand, c |-> None]},
        d \in {D10, D15, BadDate}}

ListEvent(who, gte, lte, cat, search, limit, token) ==
    [authorizer |-> who.authorizer, sub |-> who.sub, date__gte |-> gte, date__lte |-> lte,
     category |-> cat, search |-> search, limit |-> limit, next_token |-> token]

Callers == {Anonymous, [authorizer |-> "jwt", sub |-> U1]}

\* a well-formed cursor a client makes up: the sort key of a day of each partition
ForgedTokens ==
    {json_dumps([PK |-> Pk(u), SK |-> Sk(D15, <<>>)]) : u \in {U1, DefaultUser}}

\* list requests with well-formed parameters: every combination of the filters
FilterEvents ==
    {ListEvent(who, gte, lte, cat, search, limit, token) :
        who \in Callers, gte \in {None, D15}, lte \in {None, D15}, cat \in {None, Food},
        search \in {None, Coffee}, limit \in {None, LimitOne, LimitTwo},
        token \in {None} \cup ForgedTokens}

\* list requests some parameter of which is missing, empty or malformed
EdgeEvents ==
    {ListEvent(who, gte, None, None, search, lt.limit, lt.token) :
        who \in Callers, gte \in {None, BadDate}, search \in {None, <<>>, Coffee},
        lt \in {[limit |-> l, token |-> None] :
                    l \in {None, LimitWord, LimitZero, LimitNeg, LimitBig}}
               \cup {[limit |-> l, token |-> t] :
                    l \in {None, LimitZero},
                    t \in {<<>>, TokenGarbage, TokenNumber, TokenEmptyObject,
                           TokenNoSortKey}}}

ListEvents == FilterEvents \cup EdgeEvents

NoRequest == ListEvent([authorizer |-> "idle", sub |-> None], None, None, None, None, None, None)
NoResponse == create_error_response(0, "")

\* ----------------------------------------------------------------- actions
Init ==
    /\ table = {}
    /\ scanOrder \in {<<Pk(U1), Pk(DefaultUser)>>, <<Pk(DefaultUser), Pk(U1)>>}
    /\ req = NoRequest
    /\ resp = NoResponse
    /\ calls = <<>>
    /\ pages = <<>>

\* the create handler: one valid request puts one item under a fresh UUID
CreateExpense(event, expense_id) ==
    /\ req = NoRequest
    /\ Cardinality(table) < MaxRecords
    /\ expense_id \notin {it.expenseID : it \in table}
    /\ validate_expense_data(event) = "ok"
    /\ table' = table \cup {NewItem(event, expense_id)}
    /\ UNCHANGED <<scanOrder, req, resp, calls, pages>>

Page(event, out) == [token |-> event.next_token, records |-> out.resp.records,
                     next |-> out.resp.next_token]

\* the list handler on a request a client makes up
ListExpenses(event) ==
    LET out == lambda_handler(event, table, scanOrder)
    IN /\ req = NoRequest
       /\ req' = event
       /\ resp' = out.resp
       /\ calls' = out.calls
       /\ pages' = <<Page(event, out)>>
       /\ UNCHANGED <<table, scanOrder>>

\* the list handler on the same request again, with the cursor of the last answer
ListNextPage ==
    LET event == [req EXCEPT !.next_token = resp.next_token]
        out == lambda_handler(event, table, scanOrder)
    IN /\ req # NoRequest
       /\ resp.statusCode = 200
       /\ resp.next_token # None
       /\ req' = event
       /\ resp' = out.resp
       /\ calls' = out.calls
       /\ pages' = Append(pages, Page(event, out))
       /\ UNCHANGED <<table, scanOrder>>

\* the client is done with the answers it got
Finish ==
    /\ req # NoRequest
    /\ req' = NoRequest
    /\ resp' = NoResponse
    /\ calls' = <<>>
    /\ pages' = <<>>
    /\ UNCHANGED <<table, scanOrder>>

Next ==
    \/ \E event \in CreateEvents, expense_id \in Uuids : CreateExpense(event, expense_id)
    \/ \E event \in ListEvents : ListExpenses(event)
    \/ ListNextPage
    \/ Finish

Spec == Init /\ [][Next]_vars

\* ------------------------------------------------------------------ claims
Responded == req # NoRequest

NoIdentity(ev) == ev.authorizer = "absent" \/ ~Truthy(ev.sub)

\* the user a request is answered for: its sub, and "darpankattel" when it has none
ResolvedUser(ev) == IF NoIdentity(ev) THEN DefaultUser ELSE ev.sub

BareDate(s) == Truthy(s) /\ strptime_ymd(s).ok
DateArgOk(s) == ~Truthy(s) \/ validate_and_normalize_date(s) # None
\* limit is absent or an integer of at least 1
PageSizeOk(ev) == ev.limit = None \/ (py_int(ev.limit).ok /\ py_int(ev.limit).v >= 1)
PageSize(ev) == IF ev.limit = None THEN 50 ELSE Min2(py_int(ev.limit).v, 100)

\* the request passes the handler's parameter validation
PassesValidation(ev) ==
    /\ ev.limit = None \/ py_int(ev.limit).ok
    /\ DateArgOk(ev.date__gte) /\ DateArgOk(ev.date__lte)
    /\ Truthy(ev.next_token) => json_loads(ev.next_token).t # "error"

\* a cursor that is given and is not the serialization of a PK + SK key
MalformedCursor(tok) ==
    /\ Truthy(tok)
    /\ ~(json_loads(tok).t = "object" /\ json_loads(tok).keys = {"PK", "SK"})

ToLower(s) == [i \in 1..Len(s) |-> IF s[i] \in 65..90 THEN s[i] + 32 ELSE s[i]]

Range(seq) == {seq[i] : i \in 1..Len(seq)}
OwnRecords(ev) == {it \in table : it.PK = Pk(ResolvedUser(ev))}

RECURSIVE Flatten(_)
\* the records of all pages, in the order received
Flatten(ps) == IF ps = <<>> THEN <<>> ELSE ps[1].records \o Flatten(Tail(ps))

\* what the store call kw selects when neither a page size nor a cursor bounds it
Unpaged(kw) ==
    LET all == [kw EXCEPT !.Limit = Cardinality(table) + 1, !.start = JsonAbsent]
    IN IF kw.op = "query" THEN table_query(table, all).Items
       ELSE table_scan(table, scanOrder, all).Items
Matching(kw) == {KeyOf(it) : it \in Range(Unpaged(kw))}

\* C1: a list request for which no identity is resolved is answered 401 and
\* makes no store call
C1_NoIdentityRefused ==
    (Responded /\ NoIdentity(req)) => (resp.statusCode = 401 /\ calls = <<>>)

\* C2: for an identified caller, a range request (no search) with only
\* date__gte = D, a bare date, whose page size exceeds the user's record
\* count, returns exactly the user's records dated D or later
C2_LowerBoundInclusive ==
    (/\ Responded /\ ~NoIdentity(req) /\ Len(pages) = 1
     /\ ~Truthy(req.search) /\ BareDate(req.date__gte) /\ ~Truthy(req.date__lte)
     /\ ~Truthy(req.category) /\ ~Truthy(req.next_token) /\ PageSizeOk(req)
     /\ Cardinality(OwnRecords(req)) < PageSize(req))
    => /\ resp.statusCode = 200
       /\ Range(resp.records) =
            {KeyOf(it) : it \in {r \in OwnRecords(req) : StrLe(req.date__gte, r.receiptDate)}}

\* C3: for an identified caller, in a range request with upper bound
\* date__lte = U (a bare date; the lower bound absent or a bare date not after
\* U) every record of the user dated U lies inside the key range of the query
C3_UpperDayInsideRange ==
    (/\ Responded /\ ~NoIdentity(req) /\ Len(calls) = 1 /\ ~Truthy(req.search)
     /\ BareDate(req.date__lte)
     /\ ~Truthy(req.date__gte) \/ (BareDate(req.date__gte) /\ StrLe(req.date__gte, req.date__lte)))
    => \A it \in OwnRecords(req) :
          it.receiptDate = req.date__lte => InKeyCond(it.SK, calls[1].kc)

\* C4: for an identified caller, a search request (no date bounds, no cursor,
\* page size not below the table's size) returns exactly the user's records
\* whose merchant name holds the term case-insensitively and that pass the
\* category filter
C4_SearchIgnoresCase ==
    (/\ Responded /\ ~NoIdentity(req) /\ Len(pages) = 1 /\ Truthy(req.search)
     /\ ~Truthy(req.date__gte) /\ ~Truthy(req.date__lte) /\ ~Truthy(req.next_token)
     /\ PageSizeOk(req) /\ Cardinality(table) <= PageSize(req))
    => /\ resp.statusCode = 200
       /\ Range(resp.records) =
            {KeyOf(it) : it \in {r \in OwnRecords(req) :
                /\ Contains(ToLower(r.merchantName), ToLower(req.search))
                /\ (Truthy(req.category) => r.category = req.category)}}

\* C5: an identified caller's request with a malformed cursor (its limit and
\* dates being valid) is answered with the 400 cursor error, under either
\* strategy
C5_MalformedCursorRejected ==
    (/\ Responded /\ ~NoIdentity(req) /\ MalformedCursor(req.next_token)
     /\ PageSizeOk(req) /\ DateArgOk(req.date__gte) /\ DateArgOk(req.date__lte))
    => (resp.statusCode = 400 /\ resp.error = "Invalid next_token format")

\* C6 as stated: every request makes exactly the store call of its strategy,
\* a scan with a non-empty search term and a range query without
C6_EveryRequestInvokesItsStrategy ==
    Responded =>
        /\ Len(calls) = 1
        /\ calls[1].op = (IF Truthy(req.search) THEN "scan" ELSE "query")

\* C6 amended: a request that passes parameter validation makes exactly one
\* store call, a scan if its search term is non-empty and a range query if it
\* is absent or empty; a request that fails validation makes no store call
C6_StrategySelection ==
    Responded =>
        IF PassesValidation(req)
        THEN /\ Len(calls) = 1
             /\ calls[1].op = (IF Truthy(req.search) THEN "scan" ELSE "query")
        ELSE calls = <<>>

C6_Witness ==
    /\ Responded /\ PassesValidation(req)
    /\ req.search = <<>> /\ Len(calls) = 1 /\ calls[1].op = "query"
    /\ resp.statusCode = 200 /\ resp.count > 0

\* C7: for an identified caller, with exactly two records matching and
\* limit=1 the first page holds one record and a cursor, the second page holds
\* the other record and no cursor
C7_TwoPagesOfOne ==
    (/\ Responded /\ ~NoIdentity(req) /\ pages[1].token = None /\ req.limit = LimitOne
     /\ resp.statusCode = 200 /\ Len(calls) = 1
     /\ Cardinality(Matching(calls[1])) = 2)
    => /\ Len(pages[1].records) = 1 /\ pages[1].next # None
       /\ Len(pages) >= 2 =>
            /\ Len(pages[2].records) = 1
            /\ pages[2].records[1] # pages[1].records[1]
            /\ pages[2].next = None

\* C8: the page size of every store call of an identified caller's request
\* is in 1..100, and is 50 when the request gives no limit
C8_PageSizeInRange ==
    (Responded /\ ~NoIdentity(req)) =>
        \A i \in 1..Len(calls) :
            /\ calls[i].Limit \in 1..100
            /\ req.limit = None => calls[i].Limit = 50

\* C9: every record of every page answered 200 lies in the partition of the
\* user the request is answered for, whatever the filters and the cursor
C9_UserIsolation ==
    (Responded /\ resp.statusCode = 200) =>
        \A k \in Range(Flatten(pages)) : k.PK = Pk(ResolvedUser(req))

\* a scan resumed from a cursor naming another user's partition, that user's
\* records in the table, answers with records
C9_Witness ==
    /\ Responded /\ resp.statusCode = 200 /\ resp.count > 0
    /\ Len(calls) = 1 /\ calls[1].op = "scan"
    /\ calls[1].start.t = "object" /\ calls[1].start.PK # calls[1].pk
    /\ \E it \in table : it.PK = calls[1].start.PK

\* C10: a client that starts without a cursor and follows the cursors of a
\* valid request (page size at least 1) is answered 200 every time, never gets
\* a record twice nor one outside the matching set, has made at most
\* |table| / page size requests while a cursor is still handed out, and holds
\* exactly the matching set once no cursor is handed out
C10_PaginationComplete ==
    (/\ Responded /\ pages[1].token = None
     /\ PageSizeOk(req) /\ DateArgOk(req.date__gte) /\ DateArgOk(req.date__lte))
    => /\ resp.statusCode = 200
       /\ Len(calls) = 1
       /\ Cardinality(Range(Flatten(pages))) = Len(Flatten(pages))
       /\ Range(Flatten(pages)) \subseteq Matching(calls[1])
       /\ resp.next_token # None => Len(pages) * PageSize(req) <= Cardinality(table)
       /\ resp.next_token = None => Range(Flatten(pages)) = Matching(calls[1])

\* a search session of three pages or more, one of them empty, that ends
\* having delivered a record
C10_Witness ==
    /\ Responded /\ pages[1].token = None /\ Truthy(req.search)
    /\ Len(pages) >= 3 /\ resp.statusCode = 200 /\ resp.next_token = None
    /\ \E i \in 1..Len(pages) : pages[i].records = <<>> /\ pages[i].next # None
    /\ Flatten(pages) # <<>>
====
